---- MODULE Spec2Model ----
(***************************************************************************)
(* Server actions of app/lib/actions.ts: createInvoice, updateInvoice,     *)
(* deleteInvoice and authenticate, with the collaborators they call (the   *)
(* sql client, revalidatePath, redirect, signIn).                          *)
(*                                                                         *)
(* A JavaScript number is a record [nan, milli]: milli is the value in     *)
(* thousandths, so that amount * 100 is exact for the decimal inputs used  *)
(* here (IEEE-754 rounding of the product is not modelled).                *)
(***************************************************************************)
EXTENDS Integers, Sequences, FiniteSets, TLC

VARIABLES
    invoices,   \* the invoices table: id -> row
    issued,     \* how many ids the database has handed out
    now,        \* index of the current instant of the server clock
    req         \* per request: the invocation in progress and its outcome

vars == <<invoices, issued, now, req>>

-----------------------------------------------------------------------------
(* Bounds and input domains                                                *)

\* Number of rows the database accepts before every further insert faults.
MaxInvoices == 2

\* Concurrent requests (independent invocations of the server actions).
Requests == {"r1", "r2"}

\* Identifiers the database hands out, in this order.
InvoiceIds == <<"i1", "i2", "i3", "i4">>

\* Identifiers callers pass to updateInvoice and deleteInvoice.
CallerIds == {"i1", "i2"}

\* A key that Object.fromEntries(formData.entries()) does not produce.
Absent == "<absent>"

Form(c, a, s) == [customerId |-> c, amount |-> a, status |-> s]

\* Submitted forms: three that pass validation (z.string() accepts the empty
\* customerId), and forms failing in each field and in several.
Forms ==
    { Form("c1", "12.50", "paid"),
      Form("c1", "3", "pending"),
      Form("", "3", "paid"),
      Form("c1", "0", "paid"),
      Form("c1", "-5", "pending"),
      Form("c1", "abc", "paid"),
      Form("c1", Absent, "paid"),
      Form(Absent, "12.50", "paid"),
      Form("c1", "12.50", Absent),
      Form("c1", "3", "draft"),
      Form(Absent, "0", "pending"),
      Form(Absent, Absent, Absent) }

\* Instants of the server clock, as new Date() reads it.
Instants ==
    << [date |-> "2024-03-09", time |-> "23:59:59.999Z"],
       [date |-> "2024-03-10", time |-> "00:00:00.001Z"] >>

-----------------------------------------------------------------------------
(* Schema validation (zod)                                                 *)

Fields == {"customerId", "amount", "status"}

NaN == [nan |-> TRUE, milli |-> 0]

Num(milli) == [nan |-> FALSE, milli |-> milli]

\* z.coerce.number(): Number(input); an absent key is Number(undefined).
CoerceNumber(v) ==
    CASE v = Absent  -> NaN
      [] v = "12.50" -> Num(12500)
      [] v = "3"     -> Num(3000)
      [] v = "0"     -> Num(0)
      [] v = "-5"    -> Num(-5000)
      [] v = ""      -> Num(0)
      [] OTHER       -> NaN

\* Mutation: customerId declared optional.
CustomerIdIssuesOptional(v) == <<>>

\* customerId: z.string({required_error})
CustomerIdIssues(v) ==
    IF v = Absent THEN <<"Please select a customer">> ELSE <<>>

\* Mutation: .gte(0) in place of .gt(0).
AmountIssuesGte(v) ==
    LET n == CoerceNumber(v)
    IN  IF n.nan THEN <<"Expected number, received nan">>
        ELSE IF ~(n.milli >= 0) THEN <<"Please enter a number greater than $0.">>
        ELSE <<>>

\* amount: z.coerce.number().gt(0, {message})
AmountIssues(v) ==
    LET n == CoerceNumber(v)
    IN  IF n.nan THEN <<"Expected number, received nan">>
        ELSE IF ~(n.milli > 0) THEN <<"Please enter a number greater than $0.">>
        ELSE <<>>

\* status: z.enum(['pending', 'paid'], {required_error})
StatusIssues(v) ==
    IF v = Absent THEN <<"Please select an invoice status.">>
    ELSE IF v \notin {"pending", "paid"} THEN <<"Invalid enum value">>
    ELSE <<>>

FieldIssues(raw) ==
    [f \in Fields |->
        CASE f = "customerId" -> CustomerIdIssues(raw.customerId)
          [] f = "amount"     -> AmountIssues(raw.amount)
          [] f = "status"     -> StatusIssues(raw.status)]

NoData == [customerId |-> Absent, amount |-> NaN, status |-> Absent]

\* FormSchema.omit({id, date}).safeParse(raw), with error.flatten().fieldErrors
SafeParse(raw) ==
    LET issues == FieldIssues(raw)
        failed == {f \in Fields : issues[f] # <<>>}
    IN  IF failed = {}
        THEN [success |-> TRUE,
              data |-> [customerId |-> raw.customerId,
                        amount |-> CoerceNumber(raw.amount),
                        status |-> raw.status],
              fieldErrors |-> [f \in {} |-> <<>>]]
        ELSE [success |-> FALSE,
              data |-> NoData,
              fieldErrors |-> [f \in failed |-> issues[f]]]

\* Mutation: the amount is persisted as entered, not in cents.
AmountInCentsUnscaled(amount) == amount

\* const amountInCents = amount * 100
AmountInCents(amount) == [nan |-> amount.nan, milli |-> amount.milli * 100]

\* new Date().toISOString()
ToISOString(t) == <<t.date, "T", t.time>>

\* .split('T')[0] on the tokens of an ISO timestamp
SplitFirst(s, sep) ==
    LET k == CHOOSE i \in 1..(Len(s) + 1) :
                 /\ (i <= Len(s) => s[i] = sep)
                 /\ \A j \in 1..(i - 1) : s[j] # sep
    IN  SubSeq(s, 1, k - 1)

IsoDate(t) == SplitFirst(ToISOString(t), "T")[1]

-----------------------------------------------------------------------------
(* Collaborators                                                           *)

SqlCall(text, params) == [fn |-> "sql", text |-> text, path |-> "", params |-> params]

RevalidatePathCall(path) ==
    [fn |-> "revalidatePath", text |-> <<>>, path |-> path, params |-> <<>>]

RedirectCall(path) == [fn |-> "redirect", text |-> <<>>, path |-> path, params |-> <<>>]

SignInCall(provider) == [fn |-> "signIn", text |-> <<>>, path |-> provider, params |-> <<>>]

\* The statement texts of the three tagged templates, line by line, with the
\* interpolations replaced by their positional parameters.
InsertText ==
    << "INSERT INTO invoices (customer_id, amount, status, date)",
       "VALUES ($1, $2, $3, $4)" >>

UpdateClauses ==
    << "UPDATE invoices",
       "SET customer_id = $1, amount = $2, status = $3",
       "WHERE id = $4" >>

UpdateText ==
    UpdateClauses \o << "revalidatePath('/dashboard/invoices');",
                        "redirect('/dashboard/invoices');" >>

DeleteText == << "DELETE FROM invoices WHERE id = $1" >>

NoFault == [kind |-> "none", type |-> ""]

Fault(kind, type) == [kind |-> kind, type |-> type]

\* The database parses a statement before it runs it: text that is not one
\* statement of its grammar is a syntax error.
SqlKind(text) ==
    CASE text = InsertText    -> "insert"
      [] text = UpdateClauses -> "update"
      [] text = DeleteText    -> "delete"
      [] OTHER                -> "syntax error"

Without(db, id) == [k \in DOMAIN db \ {id} |-> db[k]]

With(db, id, row) == [k \in DOMAIN db \cup {id} |-> IF k = id THEN row ELSE db[k]]

\* One statement, executed atomically: the settled promise and the table after.
\* down: the database faults for a reason of its own; newId: the id it generates.
SqlExec(call, db, down, newId) ==
    LET kind == SqlKind(call.text)
        p == call.params
    IN  IF kind = "syntax error"
        THEN [settled |-> "rejected", fault |-> Fault("DatabaseError", "syntax"), db |-> db]
        ELSE IF down
        THEN [settled |-> "rejected", fault |-> Fault("DatabaseError", "fault"), db |-> db]
        ELSE [settled |-> "fulfilled", fault |-> NoFault,
              db |-> CASE kind = "insert" ->
                            With(db, newId, [customer_id |-> p[1], amount |-> p[2],
                                             status |-> p[3], date |-> p[4]])
                       [] kind = "update" ->
                            IF p[4] \in DOMAIN db
                            THEN With(db, p[4], [customer_id |-> p[1], amount |-> p[2],
                                                 status |-> p[3], date |-> db[p[4]].date])
                            ELSE db
                       [] kind = "delete" -> Without(db, p[1])]

SignInOutcomes ==
    { NoFault,
      Fault("AuthError", "CredentialsSignin"),
      Fault("AuthError", "CallbackRouteError"),
      Fault("AuthError", "AccessDenied"),
      Fault("Error", "NEXT_REDIRECT"),
      Fault("Error", "TypeError") }

-----------------------------------------------------------------------------
(* Results of an invocation                                                *)

NoErrors == [f \in {} |-> <<>>]

\* The invocation has not ended.
Pending ==
    [kind |-> "pending", keys |-> {}, status |-> 0, message |-> "",
     errors |-> NoErrors, path |-> "", fault |-> NoFault]

\* return { ...keys }: a State object with exactly these keys.
ReturnState(keys, status, message, errors) ==
    [Pending EXCEPT !.kind = "state", !.keys = keys, !.status = status,
                    !.message = message, !.errors = errors]

\* return 'text'
ReturnString(text) == [Pending EXCEPT !.kind = "string", !.message = text]

\* the function body ends without a return statement
ReturnUndefined == [Pending EXCEPT !.kind = "undefined"]

\* a fault leaves the invocation
Throw(fault) == [Pending EXCEPT !.kind = "throw", !.fault = fault]

\* redirect(path) ends the invocation; nothing is returned
Redirected(path) == [Pending EXCEPT !.kind = "redirect", !.path = path]

-----------------------------------------------------------------------------
(* The server actions.  Each runs to its first await (Start), and resumes  *)
(* when the awaited promise has settled (Resume).  rv gives, for each      *)
(* revalidatePath call of the continuation, whether the call returns       *)
(* ("ok") or raises ("throw").                                             *)

RevalidateFault == Fault("Error", "revalidatePath")

ZodError == Fault("ZodError", "validation")

Step(calls, result) == [calls |-> calls, result |-> result]

\* createInvoice up to `await sql`
CreateInvoiceStart(formData, t) ==
    LET validatedFields == SafeParse(formData)
        data == validatedFields.data
    IN  IF ~validatedFields.success
        THEN Step(<<>>, ReturnState({"status", "errors", "message"}, 500,
                                    "Missing fields. Failed to Create Invoice.",
                                    validatedFields.fieldErrors))
        ELSE Step(<< SqlCall(InsertText, << data.customerId, AmountInCents(data.amount),
                                            data.status, IsoDate(t) >>) >>,
                  Pending)

\* Mutation: no try/catch result is looked at; the continuation always revalidates
\* and redirects.
CreateInvoiceResumeIgnoresFault(settled, calls, rv) ==
    Step(calls \o << RevalidatePathCall("/dashboard/invoices"),
                     RevalidatePathCall("/dashboard"),
                     RedirectCall("/dashboard/invoices") >>,
         Redirected("/dashboard/invoices"))

\* createInvoice after `await sql`
CreateInvoiceResume(settled, calls, rv) ==
    IF settled = "rejected"
    THEN Step(calls, ReturnState({"message"}, 0,
                                 "Database error: failed to create invoice", NoErrors))
    ELSE LET c1 == Append(calls, RevalidatePathCall("/dashboard/invoices"))
             c2 == Append(c1, RevalidatePathCall("/dashboard"))
             c3 == Append(c2, RedirectCall("/dashboard/invoices"))
         IN  IF rv[1] = "throw" THEN Step(c1, Throw(RevalidateFault))
             ELSE IF rv[2] = "throw" THEN Step(c2, Throw(RevalidateFault))
             ELSE Step(c3, Redirected("/dashboard/invoices"))

\* Mutation: updateInvoice validates with safeParse and returns a State, as
\* createInvoice does.
UpdateInvoiceStartSafeParse(id, formData) ==
    LET parsed == SafeParse(formData)
        data == parsed.data
    IN  IF ~parsed.success
        THEN Step(<<>>, ReturnState({"errors", "message"}, 0,
                                    "Missing fields. Failed to Update Invoice.",
                                    parsed.fieldErrors))
        ELSE Step(<< SqlCall(UpdateText, << data.customerId, AmountInCents(data.amount),
                                            data.status, id >>) >>,
                  Pending)

\* updateInvoice up to `await sql`; UpdateInvoice.parse throws where safeParse fails
UpdateInvoiceStart(id, formData) ==
    LET parsed == SafeParse(formData)
        data == parsed.data
    IN  IF ~parsed.success
        THEN Step(<<>>, Throw(ZodError))
        ELSE Step(<< SqlCall(UpdateText, << data.customerId, AmountInCents(data.amount),
                                            data.status, id >>) >>,
                  Pending)

\* updateInvoice after `await sql`
UpdateInvoiceResume(settled, calls, rv) ==
    IF settled = "rejected"
    THEN Step(calls, ReturnState({"message"}, 0,
                                 "Database error: failed to updated invoice", NoErrors))
    ELSE LET c1 == Append(calls, RevalidatePathCall("/dashboard/invoices"))
             c2 == Append(c1, RedirectCall("/dashboard/invoices"))
         IN  IF rv[1] = "throw" THEN Step(c1, Throw(RevalidateFault))
             ELSE Step(c2, Redirected("/dashboard/invoices"))

\* Mutation: the statement is keyed by a fixed id, not by the argument.
DeleteInvoiceStartFixedId(id) == Step(<< SqlCall(DeleteText, <<"i1">>) >>, Pending)

\* deleteInvoice up to `await sql`
DeleteInvoiceStart(id) == Step(<< SqlCall(DeleteText, <<id>>) >>, Pending)

\* Mutation: deleteInvoice redirects after a successful delete, as createInvoice does.
DeleteInvoiceResumeRedirects(settled, calls, rv) ==
    IF settled = "rejected"
    THEN Step(calls, ReturnState({"message"}, 0,
                                 "Database Error: failed to delete invoice", NoErrors))
    ELSE Step(calls \o << RevalidatePathCall("/dashboard/invoices"),
                          RedirectCall("/dashboard/invoices") >>,
              Redirected("/dashboard/invoices"))

\* deleteInvoice after `await sql`: revalidatePath runs inside the try block
DeleteInvoiceResume(settled, calls, rv) ==
    LET failed == ReturnState({"message"}, 0,
                              "Database Error: failed to delete invoice", NoErrors)
        c1 == Append(calls, RevalidatePathCall("/dashboard/invoices"))
    IN  IF settled = "rejected" THEN Step(calls, failed)
        ELSE IF rv[1] = "throw" THEN Step(c1, failed)
        ELSE Step(c1, ReturnState({"message"}, 0, "Deleted invoice.", NoErrors))

\* authenticate up to `await signIn`
AuthenticateStart == Step(<< SignInCall("credentials") >>, Pending)

\* Mutation: every fault of signIn is turned into a message; none is thrown again.
AuthenticateResumeSwallows(error, calls) ==
    IF error = NoFault THEN Step(calls, ReturnUndefined)
    ELSE IF error.kind = "AuthError" /\ error.type = "CredentialsSignin"
    THEN Step(calls, ReturnString("Invalid credentials"))
    ELSE Step(calls, ReturnString("Something went wrong"))

\* authenticate after `await signIn`; error is what signIn raised (NoFault: resolved)
AuthenticateResume(error, calls) ==
    IF error = NoFault THEN Step(calls, ReturnUndefined)
    ELSE IF error.kind = "AuthError"
    THEN IF error.type = "CredentialsSignin"
         THEN Step(calls, ReturnString("Invalid credentials"))
         ELSE Step(calls, ReturnString("Something went wrong"))
    ELSE Step(calls, Throw(error))

-----------------------------------------------------------------------------
(* State machine                                                           *)

Idle ==
    [pc |-> "idle", op |-> "none", id |-> "", form |-> Form(Absent, Absent, Absent),
     calls |-> <<>>, settled |-> "none", fault |-> NoFault, result |-> Pending]

Init ==
    /\ invoices = [k \in {} |-> 0]
    /\ issued = 0
    /\ now = 1
    /\ req = [r \in Requests |-> Idle]

\* A request that has entered a server action and run to its first await
\* (awaiting), or to the end of the invocation where it returned or threw before.
Begun(op, id, form, step, awaiting) ==
    [pc |-> IF step.result.kind = "pending" THEN awaiting ELSE "done",
     op |-> op, id |-> id, form |-> form, calls |-> step.calls,
     settled |-> "none", fault |-> NoFault, result |-> step.result]

\* A request whose continuation has run to the end of the invocation.
Finished(q, step) == [q EXCEPT !.pc = "done", !.calls = step.calls, !.result = step.result]

CreateInvoice(r) ==
    /\ req[r].pc = "idle"
    /\ \E formData \in Forms :
          req' = [req EXCEPT ![r] =
                     Begun("createInvoice", "", formData,
                           CreateInvoiceStart(formData, Instants[now]), "awaitSql")]
    /\ UNCHANGED <<invoices, issued, now>>

UpdateInvoice(r) ==
    /\ req[r].pc = "idle"
    /\ \E id \in CallerIds, formData \in Forms :
          req' = [req EXCEPT ![r] =
                     Begun("updateInvoice", id, formData,
                           UpdateInvoiceStart(id, formData), "awaitSql")]
    /\ UNCHANGED <<invoices, issued, now>>

DeleteInvoice(r) ==
    /\ req[r].pc = "idle"
    /\ \E id \in CallerIds :
          req' = [req EXCEPT ![r] =
                     Begun("deleteInvoice", id, Form(Absent, Absent, Absent),
                           DeleteInvoiceStart(id), "awaitSql")]
    /\ UNCHANGED <<invoices, issued, now>>

Authenticate(r) ==
    /\ req[r].pc = "idle"
    /\ req' = [req EXCEPT ![r] =
                  Begun("authenticate", "", Form(Absent, Absent, Absent),
                        AuthenticateStart, "awaitSignIn")]
    /\ UNCHANGED <<invoices, issued, now>>

\* The database executes the awaited statement and settles its promise.
SqlSettle(r) ==
    /\ req[r].pc = "awaitSql"
    /\ \E down \in BOOLEAN :
          LET call == req[r].calls[Len(req[r].calls)]
              inserts == ~down /\ SqlKind(call.text) = "insert"
              newId == IF issued < Len(InvoiceIds) THEN InvoiceIds[issued + 1] ELSE "none"
              res == SqlExec(call, invoices, down, newId)
          IN  /\ inserts => issued < MaxInvoices
              /\ invoices' = res.db
              /\ issued' = IF inserts THEN issued + 1 ELSE issued
              /\ req' = [req EXCEPT ![r].pc = "sqlSettled", ![r].settled = res.settled,
                                    ![r].fault = res.fault]
    /\ UNCHANGED now

CreateInvoiceContinue(r, outcomes) ==
    /\ req[r].pc = "sqlSettled" /\ req[r].op = "createInvoice"
    /\ \E rv \in [1..2 -> outcomes] :
          req' = [req EXCEPT ![r] =
                     Finished(@, CreateInvoiceResume(req[r].settled, req[r].calls, rv))]
    /\ UNCHANGED <<invoices, issued, now>>

UpdateInvoiceContinue(r, outcomes) ==
    /\ req[r].pc = "sqlSettled" /\ req[r].op = "updateInvoice"
    /\ \E rv \in [1..1 -> outcomes] :
          req' = [req EXCEPT ![r] =
                     Finished(@, UpdateInvoiceResume(req[r].settled, req[r].calls, rv))]
    /\ UNCHANGED <<invoices, issued, now>>

DeleteInvoiceContinue(r, outcomes) ==
    /\ req[r].pc = "sqlSettled" /\ req[r].op = "deleteInvoice"
    /\ \E rv \in [1..1 -> outcomes] :
          req' = [req EXCEPT ![r] =
                     Finished(@, DeleteInvoiceResume(req[r].settled, req[r].calls, rv))]
    /\ UNCHANGED <<invoices, issued, now>>

\* signIn settles and authenticate resumes.
AuthenticateContinue(r) ==
    /\ req[r].pc = "awaitSignIn"
    /\ \E error \in SignInOutcomes :
          req' = [req EXCEPT ![r] =
                     Finished([@ EXCEPT !.settled = IF error = NoFault THEN "fulfilled"
                                                    ELSE "rejected",
                                        !.fault = error],
                              AuthenticateResume(error, req[r].calls))]
    /\ UNCHANGED <<invoices, issued, now>>

\* The caller has taken the outcome; the request slot is free again.
Return(r) ==
    /\ req[r].pc = "done"
    /\ req' = [req EXCEPT ![r] = Idle]
    /\ UNCHANGED <<invoices, issued, now>>

\* The server clock advances.
Tick ==
    /\ now < Len(Instants)
    /\ now' = now + 1
    /\ UNCHANGED <<invoices, issued, req>>

\* revalidatePath as its contract has it: it marks the path stale and returns.
CacheReturns == {"ok"}

\* revalidatePath may also raise.
CacheMayThrow == {"ok", "throw"}

Actions(outcomes) ==
    \/ \E r \in Requests : CreateInvoice(r)
    \/ \E r \in Requests : UpdateInvoice(r)
    \/ \E r \in Requests : DeleteInvoice(r)
    \/ \E r \in Requests : Authenticate(r)
    \/ \E r \in Requests : SqlSettle(r)
    \/ \E r \in Requests : CreateInvoiceContinue(r, outcomes)
    \/ \E r \in Requests : UpdateInvoiceContinue(r, outcomes)
    \/ \E r \in Requests : DeleteInvoiceContinue(r, outcomes)
    \/ \E r \in Requests : AuthenticateContinue(r)
    \/ \E r \in Requests : Return(r)
    \/ Tick

Next == Actions(CacheReturns)

Spec == Init /\ [][Next]_vars

NextCacheFault == Actions(CacheMayThrow)

SpecCacheFault == Init /\ [][NextCacheFault]_vars

-----------------------------------------------------------------------------
(* Vocabulary of the properties                                            *)

Statuses == {"pending", "paid"}

Positive(n) == ~n.nan /\ n.milli > 0

FailedFields(form) ==
    {f \in Fields :
        \/ f = "customerId" /\ form.customerId = Absent
        \/ f = "amount" /\ ~Positive(CoerceNumber(form.amount))
        \/ f = "status" /\ form.status \notin Statuses}

ValidInput(form) == FailedFields(form) = {}

\* amount * 100, in thousandths of a cent
Cents(form) == Num(CoerceNumber(form.amount).milli * 100)

InvoicesPath == "/dashboard/invoices"

DashboardPath == "/dashboard"

IsState(result, message) ==
    result.kind = "state" /\ result.keys = {"message"} /\ result.message = message

\* C1: a createInvoice invocation with valid input issues, on entry, exactly one
\* insert carrying customerId, amount*100 cents ("12.50" gives 1250), status and
\* today's ISO date; nothing more is called while the statement runs; and when
\* the insert has succeeded the continuation calls exactly revalidatePath of
\* '/dashboard/invoices', revalidatePath of '/dashboard' and redirect to
\* '/dashboard/invoices', in this order, and ends by that redirect with no State.
C1_CreateCallSequence ==
    [][\A r \in Requests :
        LET q == req[r]
            n == req'[r]
        IN  /\ (q.pc = "idle" /\ n.op = "createInvoice" /\ ValidInput(n.form)) =>
                  /\ n.pc = "awaitSql"
                  /\ n.calls = << SqlCall(InsertText,
                                          << n.form.customerId, Cents(n.form),
                                             n.form.status, Instants[now].date >>) >>
                  /\ (n.form.amount = "12.50" =>
                         n.calls[1].params[2] = Num(1250 * 1000))
            /\ (q.pc = "awaitSql" /\ q.op = "createInvoice" /\ n.pc # q.pc) =>
                  /\ n.pc = "sqlSettled"
                  /\ n.calls = q.calls
            /\ (q.pc = "sqlSettled" /\ q.op = "createInvoice" /\ q.settled = "fulfilled"
                    /\ n.pc # q.pc) =>
                  /\ n.pc = "done"
                  /\ n.calls = q.calls \o << RevalidatePathCall(InvoicesPath),
                                              RevalidatePathCall(DashboardPath),
                                              RedirectCall(InvoicesPath) >>
                  /\ n.result = Redirected(InvoicesPath)
    ]_vars

C1_Witness ==
    \E r \in Requests :
        /\ req[r].pc = "done" /\ req[r].op = "createInvoice"
        /\ req[r].form = Form("c1", "12.50", "paid")
        /\ req[r].result.kind = "redirect"
        /\ Len(req[r].calls) = 4
        /\ req[r].calls[1].params[2] = Num(1250000)
        /\ \E id \in DOMAIN invoices : invoices[id].amount = Num(1250000)

\* C2: a createInvoice invocation whose input fails validation ends at once: it
\* calls no collaborator (no statement, no revalidatePath, no redirect) and
\* returns a State with the message 'Missing fields. Failed to Create Invoice.'
\* whose errors have a non-empty list for every field that failed.
C2_CreateValidationFailure ==
    \A r \in Requests :
        (req[r].op = "createInvoice" /\ ~ValidInput(req[r].form)) =>
            /\ req[r].pc = "done"
            /\ req[r].calls = <<>>
            /\ req[r].result.kind = "state"
            /\ req[r].result.message = "Missing fields. Failed to Create Invoice."
            /\ "errors" \in req[r].result.keys
            /\ \A f \in FailedFields(req[r].form) :
                  /\ f \in DOMAIN req[r].result.errors
                  /\ req[r].result.errors[f] # <<>>

C2_Witness ==
    \E r \in Requests :
        /\ req[r].pc = "done" /\ req[r].op = "createInvoice"
        /\ req[r].form = Form(Absent, "0", "pending")
        /\ DOMAIN req[r].result.errors = {"customerId", "amount"}

\* C3: deleteInvoice(id) issues exactly one delete statement keyed by id; when
\* the statement has succeeded it calls revalidatePath('/dashboard/invoices')
\* once and returns {message: 'Deleted invoice.'} without redirecting; when the
\* statement has raised it returns the database-error message and calls nothing
\* more.
C3_DeleteOutcome ==
    \A r \in Requests :
        LET q == req[r]
            stmt == SqlCall(DeleteText, <<q.id>>)
        IN  (q.op = "deleteInvoice") =>
                /\ q.pc \in {"awaitSql", "sqlSettled"} => q.calls = <<stmt>>
                /\ (q.pc = "done" /\ q.settled = "fulfilled") =>
                      /\ q.calls = <<stmt, RevalidatePathCall(InvoicesPath)>>
                      /\ IsState(q.result, "Deleted invoice.")
                /\ (q.pc = "done" /\ q.settled = "rejected") =>
                      /\ q.calls = <<stmt>>
                      /\ IsState(q.result, "Database Error: failed to delete invoice")
                /\ q.pc = "done" => q.settled \in {"fulfilled", "rejected"}

C3_Witness ==
    /\ \E r \in Requests :
          /\ req[r].pc = "done" /\ req[r].op = "deleteInvoice"
          /\ req[r].settled = "fulfilled" /\ req[r].result.message = "Deleted invoice."
    /\ \E r \in Requests :
          /\ req[r].pc = "done" /\ req[r].op = "deleteInvoice"
          /\ req[r].settled = "rejected"

\* C4: authenticate calls signIn once, with 'credentials'; an AuthError of type
\* 'CredentialsSignin' gives the string 'Invalid credentials', an AuthError of
\* any other type gives 'Something went wrong', and any other fault is thrown
\* again unchanged with nothing returned.
C4_AuthenticateOutcome ==
    \A r \in Requests :
        LET q == req[r]
        IN  (q.op = "authenticate") =>
                /\ q.calls = << SignInCall("credentials") >>
                /\ (q.pc = "done" /\ q.fault.kind = "AuthError") =>
                      /\ q.result.kind = "string"
                      /\ q.result.message =
                            IF q.fault.type = "CredentialsSignin"
                            THEN "Invalid credentials" ELSE "Something went wrong"
                /\ (q.pc = "done" /\ q.fault.kind \notin {"AuthError", "none"}) =>
                      /\ q.result.kind = "throw"
                      /\ q.result.fault = q.fault
                      /\ q.result.message = ""

C4_Witness ==
    /\ \E r \in Requests :
          /\ req[r].pc = "done" /\ req[r].op = "authenticate"
          /\ req[r].fault = Fault("AuthError", "CredentialsSignin")
    /\ \E r \in Requests :
          /\ req[r].pc = "done" /\ req[r].op = "authenticate"
          /\ req[r].fault.kind = "Error"

\* C5 (as claimed): updateInvoice(id, form) with valid input issues exactly one
\* update statement keyed by id that sets customer_id, amount (amount*100 cents)
\* and status; when the statement has succeeded the handler calls
\* revalidatePath('/dashboard/invoices') and then redirect('/dashboard/invoices');
\* when it has raised the handler returns the database-error State and calls
\* nothing more.
C5_UpdateIssuesUpdateStatement ==
    \A r \in Requests :
        LET q == req[r]
        IN  (q.op = "updateInvoice" /\ q.pc = "done" /\ ValidInput(q.form)) =>
                /\ q.calls[1].fn = "sql"
                /\ SqlKind(q.calls[1].text) = "update"
                /\ q.calls[1].params =
                      << q.form.customerId, Cents(q.form), q.form.status, q.id >>
                /\ q.settled = "fulfilled" =>
                      /\ SubSeq(q.calls, 2, Len(q.calls)) =
                            << RevalidatePathCall(InvoicesPath), RedirectCall(InvoicesPath) >>
                      /\ q.result = Redirected(InvoicesPath)
                /\ q.settled = "rejected" =>
                      /\ Len(q.calls) = 1
                      /\ IsState(q.result, "Database error: failed to updated invoice")

\* What the code does instead: every updateInvoice with valid input ends with
\* the database-error State, whatever the state of the database, and never
\* reaches revalidatePath or redirect.
UpdateAlwaysFails ==
    \A r \in Requests :
        (req[r].op = "updateInvoice" /\ req[r].pc = "done" /\ ValidInput(req[r].form)) =>
            /\ req[r].fault = Fault("DatabaseError", "syntax")
            /\ Len(req[r].calls) = 1
            /\ IsState(req[r].result, "Database error: failed to updated invoice")

\* C6: every stored invoice row has an amount greater than zero and a status
\* that is 'pending' or 'paid', and every insert or update statement a handler
\* has issued, in any interleaving of the requests, carries such an amount and
\* such a status.
C6_PersistedAmountAndStatus ==
    /\ \A id \in DOMAIN invoices :
          Positive(invoices[id].amount) /\ invoices[id].status \in Statuses
    /\ \A r \in Requests :
          \A i \in 1..Len(req[r].calls) :
              LET c == req[r].calls[i]
              IN  (c.fn = "sql" /\ Len(c.params) = 4) =>
                      Positive(c.params[2]) /\ c.params[3] \in Statuses

C6_Witness ==
    /\ Cardinality(DOMAIN invoices) = 2
    /\ \E r \in Requests :
          /\ req[r].op = "updateInvoice" /\ req[r].pc = "awaitSql"
          /\ req[r].id \in DOMAIN invoices
    /\ \E r \in Requests :
          /\ req[r].op = "createInvoice" /\ req[r].pc = "awaitSql"

\* C7: when the insert of a createInvoice invocation with valid input raises,
\* the table is left as it was, and the continuation returns a State holding
\* only the message 'Database error: failed to create invoice', with no errors
\* mapping, calling neither revalidatePath nor redirect.
C7_CreatePersistenceFault ==
    [][\A r \in Requests :
        LET q == req[r]
            n == req'[r]
        IN  /\ (q.pc = "awaitSql" /\ q.op = "createInvoice" /\ n.settled = "rejected") =>
                  invoices' = invoices
            /\ (q.pc = "sqlSettled" /\ q.op = "createInvoice" /\ q.settled = "rejected"
                    /\ n.pc # q.pc) =>
                  /\ n.pc = "done"
                  /\ n.calls = q.calls
                  /\ Len(n.calls) = 1
                  /\ n.result.kind = "state"
                  /\ n.result.message = "Database error: failed to create invoice"
                  /\ "errors" \notin n.result.keys
                  /\ n.result.errors = NoErrors
                  /\ invoices' = invoices
    ]_vars

C7_Witness ==
    \E r \in Requests :
        /\ req[r].pc = "done" /\ req[r].op = "createInvoice"
        /\ ValidInput(req[r].form)
        /\ req[r].settled = "rejected"
        /\ req[r].result.message = "Database error: failed to create invoice"

\* C8: an updateInvoice invocation whose input fails validation ends at once
\* with the validation fault thrown out of the handler: no State is returned
\* and no collaborator is called.
C8_UpdateValidationThrows ==
    \A r \in Requests :
        (req[r].op = "updateInvoice" /\ ~ValidInput(req[r].form)) =>
            /\ req[r].pc = "done"
            /\ req[r].result.kind = "throw"
            /\ req[r].result.fault.kind = "ZodError"
            /\ req[r].result.keys = {}
            /\ req[r].calls = <<>>
            /\ req[r].settled = "none"

C8_Witness ==
    \E r \in Requests :
        /\ req[r].pc = "done" /\ req[r].op = "updateInvoice"
        /\ req[r].form = Form("c1", "-5", "pending")
        /\ req[r].result.kind = "throw"
        /\ req[r].id \in DOMAIN invoices

\* C9: the table changes only in the step that executes a statement, and then
\* only so: a successful insert adds one row under a new id and leaves the
\* others; a successful update of id changes at most customer, amount and
\* status of that row; a successful delete of id removes that row alone; a
\* statement that raises, and every other step of any invocation (validation,
\* continuation, authenticate), leaves the table unchanged.
C9_FrameOfTheTable ==
    [][/\ \A r \in Requests :
            LET q == req[r]
                n == req'[r]
                kept(ids) == \A k \in ids : k \in DOMAIN invoices' /\ invoices'[k] = invoices[k]
            IN  (q.pc = "awaitSql" /\ n.pc = "sqlSettled") =>
                    /\ n.settled = "rejected" => invoices' = invoices
                    /\ (n.settled = "fulfilled" /\ q.op = "createInvoice") =>
                          /\ Cardinality(DOMAIN invoices' \ DOMAIN invoices) = 1
                          /\ kept(DOMAIN invoices)
                    /\ (n.settled = "fulfilled" /\ q.op = "updateInvoice") =>
                          /\ DOMAIN invoices' = DOMAIN invoices
                          /\ kept(DOMAIN invoices \ {q.id})
                          /\ q.id \in DOMAIN invoices =>
                                invoices'[q.id].date = invoices[q.id].date
                    /\ (n.settled = "fulfilled" /\ q.op = "deleteInvoice") =>
                          /\ DOMAIN invoices' = DOMAIN invoices \ {q.id}
                          /\ kept(DOMAIN invoices \ {q.id})
       /\ (\A r \in Requests : ~(req[r].pc = "awaitSql" /\ req'[r].pc = "sqlSettled")) =>
              invoices' = invoices
       /\ \A r \in Requests :
              (req'[r].op \in {"createInvoice", "updateInvoice"}
                  /\ ~ValidInput(req'[r].form)) => req'[r].pc = "done"
    ]_vars

C9_Witness ==
    /\ \E r \in Requests :
          /\ req[r].op = "deleteInvoice" /\ req[r].pc = "sqlSettled"
          /\ req[r].settled = "fulfilled"
          /\ req[r].id = "i1" /\ DOMAIN invoices = {"i2"}
    /\ \E r \in Requests :
          /\ req[r].op = "createInvoice" /\ req[r].pc = "done"
          /\ req[r].settled = "fulfilled"

\* C10 (as claimed): whenever deleteInvoice returns 'Database Error: failed to
\* delete invoice' the delete statement raised; that is, whenever the statement
\* succeeded the returned message is 'Deleted invoice.', whatever
\* revalidatePath does afterwards.
C10_DeleteErrorMeansStatementFailed ==
    \A r \in Requests :
        (req[r].op = "deleteInvoice" /\ req[r].pc = "done") =>
            /\ req[r].result.message = "Database Error: failed to delete invoice" =>
                  req[r].settled = "rejected"
            /\ req[r].settled = "fulfilled" => req[r].result.message = "Deleted invoice."

====
